---- MODULE Spec2Model ----
(***************************************************************************)
(* A model of scrape_dxy.py: one scheduled run after another of            *)
(*   __main__ -> scrape_cnbc_with_retry -> (get_dxy_synthetic_from_fx)     *)
(*            -> append_csv                                                *)
(* against the series file data/dxy_history.csv.                           *)
(*                                                                         *)
(* Index values are fixed-point numbers, in thousandths of an index point  *)
(* (97.324 is 97324).  Wall-clock readings are in ticks of 1/TicksPerSec   *)
(* second; the timestamps of the file are whole seconds.                   *)
(* dxy_change_pct is in millionths of a percent.                           *)
(***************************************************************************)
EXTENDS Integers, Sequences, FiniteSets, TLC

\* ------------------------------------------------------------------ bounds
\* A run starts only while the series holds fewer than MaxRows records.
MaxRows == 3
\* The runs of a streak of outlier offers are counted up to StreakCap.
StreakCap == 2
\* A call of scrape_cnbc_once captures at most MaxCaptured prices.
MaxCaptured == 2
\* The resolution of index values (units per index point) and of the wall
\* clock (ticks per second).
Scale == 1000
TicksPerSec == 2

\* ------------------------------------------------------- program constants
MinDxy == 90 * Scale
MaxDxy == 110 * Scale
MaxDelta == 3 * Scale
BaselineRef == (97324 * Scale) \div 1000
DedupSeconds == 60
max_rounds == 4
NumUrls == 1
NumProfiles == 2
NumSelectors == 4
BackoffFactor == 4

LIVE == "cnbc_playwright"
SYNTHETIC == "synthetic_fx_fallback"
\* None where a number is expected, and where a string is.
None == 0 - 1
NoStr == "None"
\* last_err = "" and no exception raised, as error records.
NoErr == [url |-> 0, vp |-> 0, e |-> ""]
NotRaised == [url |-> 0, vp |-> 0, e |-> "not raised"]

Needed == {"EUR", "JPY", "GBP", "CAD", "SEK", "CHF"}

\* --------------------------------------------------------- input domains
\* Index values the page, the responses and the estimator may yield.
Values == {104 * Scale, 107 * Scale, 110 * Scale, 113 * Scale}

\* Wall-clock readings, in ticks: 0 s, the last tick before 60 s, and 60 s.
ClockValues == {0, DedupSeconds * TicksPerSec - 1, DedupSeconds * TicksPerSec}

Abs(x) == IF x < 0 THEN -x ELSE x

\* ------------------------------------------------------------- helpers
\* now_utc_str: the wall clock formatted "%Y-%m-%d %H:%M:%S", which drops the
\* fraction of the second.
now_utc_str(t) == t \div TicksPerSec

\* pd.to_datetime of a timestamp string of the file, as a clock reading.
to_datetime(ts) == ts * TicksPerSec

\* floor(n * 10^k / d) and the remainder, one decimal digit at a time.
RECURSIVE LongDiv(_, _, _, _)
LongDiv(rem, d, k, acc) ==
    IF k = 0 THEN <<acc, rem>>
    ELSE LongDiv((rem * 10) % d, d, k - 1, acc * 10 + ((rem * 10) \div d))

\* round(((v - ref) / ref) * 100.0, 6), in millionths of a percent.
ChangePct(v, ref) ==
    LET n == Abs(v - ref) * 100
        res == LongDiv(n % ref, ref, 6, n \div ref)
        mag == IF 2 * res[2] >= ref THEN res[1] + 1 ELSE res[1]
    IN  IF v < ref THEN -mag ELSE mag

\* A datetime_utc cell of a stored file that is text pandas cannot parse as a
\* date (an empty cell is None, NaN).
BadTs == 0 - 2

\* pd.to_datetime(df["datetime_utc"], utc=True, errors="coerce") followed by
\* strftime: a cell that is no date becomes NaT and is written empty.
Coerce(s) ==
    [i \in DOMAIN s |->
        IF s[i].datetime_utc = BadTs THEN [s[i] EXCEPT !.datetime_utc = None]
        ELSE s[i]]

\* df.sort_values("datetime_utc"): ascending, NaT last, rows of equal
\* timestamp keeping their order.
LeqTs(a, b) == IF b = None THEN TRUE ELSE a # None /\ a <= b
InsertByTs(s, x) ==
    LET k == Cardinality({i \in 1..Len(s) :
                            LeqTs(s[i].datetime_utc, x.datetime_utc)})
    IN  SubSeq(s, 1, k) \o <<x>> \o SubSeq(s, k + 1, Len(s))

RECURSIVE SortByTs(_)
SortByTs(s) ==
    IF s = <<>> THEN <<>>
    ELSE InsertByTs(SortByTs(SubSeq(s, 1, Len(s) - 1)), s[Len(s)])

\* The read that takes whatever records the file holds, readable or not.
LoadCsvWhateverKind(kind, rows) == rows

\* The safe read of append_csv: a missing, zero-length or unparsable file is
\* an empty frame; a file that parses is a frame of all its rows, the cells
\* of a column it lacks being None.
LoadCsv(kind, rows) == IF kind = "table" THEN rows ELSE <<>>

\* ------------------------------------------------------ scrape_cnbc_once
\* A page load as the browser shows it: whether page.goto raised, what each
\* strict selector's element text parses to (None: no element, an exception or
\* no number), the prices on_response captured, in arrival order, and what
\* extract_dxy_from_html_strict finds in the HTML.
\* The range check without its upper limit.
InRangeNoUpperLimit(v) == v # None /\ MinDxy <= v

InRange(v) == v # None /\ MinDxy <= v /\ v <= MaxDxy

SetMin(S) == CHOOSE x \in S : \A y \in S : x <= y
SetMax(S) == CHOOSE x \in S : \A y \in S : x >= y

\* for sel in strict_selectors: the first selector whose text is in range.
DomHit(dom) ==
    LET hits == {i \in 1..Len(dom) : InRange(dom[i])}
    IN  IF hits = {} THEN None ELSE dom[SetMin(hits)]

\* The captured prices walked in arrival order: the earliest in range.
CapturedHitEarliest(captured) ==
    LET hits == {i \in 1..Len(captured) : InRange(captured[i])}
    IN  IF hits = {} THEN None ELSE captured[SetMin(hits)]

\* for v in reversed(captured_prices): the latest captured price in range.
CapturedHit(captured) ==
    LET hits == {i \in 1..Len(captured) : InRange(captured[i])}
    IN  IF hits = {} THEN None ELSE captured[SetMax(hits)]

HtmlHit(html) == IF InRange(html) THEN html ELSE None

Ok(v, strategy) == [ok |-> TRUE, val |-> v, err |-> NoStr, strategy |-> strategy]
Raise(e) == [ok |-> FALSE, val |-> None, err |-> e, strategy |-> NoStr]

\* The HTML search consulted before the captured responses.
scrape_cnbc_once_html_second(page) ==
    IF page.goto # "ok" THEN Raise("goto")
    ELSE IF DomHit(page.dom) # None THEN Ok(DomHit(page.dom), "dom")
    ELSE IF HtmlHit(page.html) # None THEN Ok(HtmlHit(page.html), "html")
    ELSE IF CapturedHit(page.captured) # None
         THEN Ok(CapturedHit(page.captured), "captured")
    ELSE Raise("parse")

\* on_response: a response whose content type or URL marks it as quote data
\* and whose text yields a .DXY price is appended to captured_prices.
on_response(captured_prices, resp) ==
    IF resp.relevant /\ resp.v # None
    THEN Append(captured_prices, resp.v)
    ELSE captured_prices

scrape_cnbc_once(page) ==
    IF page.goto # "ok" THEN Raise("goto")
    ELSE IF DomHit(page.dom) # None THEN Ok(DomHit(page.dom), "dom")
    ELSE IF CapturedHit(page.captured) # None
         THEN Ok(CapturedHit(page.captured), "captured")
    ELSE IF HtmlHit(page.html) # None THEN Ok(HtmlHit(page.html), "html")
    ELSE Raise("parse")

\* The pages the runs load: one whose navigation fails, three no strategy
\* reads an in-range price from, and one or two per strategy that does.
NoDom == [i \in 1..NumSelectors |-> None]
Page(d, c, h) == [goto |-> "ok", dom |-> d, captured |-> c, html |-> h]
Pages ==
    {[goto |-> "fail", dom |-> NoDom, captured |-> <<>>, html |-> None],
     Page(NoDom, <<>>, None),
     Page([NoDom EXCEPT ![2] = 113 * Scale], <<113 * Scale>>, None),
     Page(NoDom, <<>>, 113 * Scale),
     Page([NoDom EXCEPT ![1] = 107 * Scale], <<110 * Scale>>, 104 * Scale),
     Page([NoDom EXCEPT ![1] = 113 * Scale, ![NumSelectors] = 104 * Scale],
          <<>>, None),
     Page(NoDom, <<104 * Scale, 110 * Scale>>, 107 * Scale),
     Page(NoDom, <<107 * Scale, 113 * Scale>>, None),
     Page(NoDom, <<113 * Scale>>, 104 * Scale)}

\* ------------------------------------------- get_dxy_synthetic_from_fx
\* A reply of the exchange-rate API: whether the request succeeded, what
\* rates[c] is for each needed currency ("absent", "None", "zero" or "ok"), and
\* the value the weighted product of the six rates rounds to.
RateKinds == {"absent", "None", "zero", "ok"}
AllRatesOk == [c \in Needed |-> "ok"]
RateTables ==
    {AllRatesOk}
    \cup {[AllRatesOk EXCEPT ![c] = k] : c \in Needed, k \in RateKinds \ {"ok"}}
NoReply == [http |-> "no request", rates |-> AllRatesOk, dxy |-> None]
Replies ==
    {[http |-> "error", rates |-> AllRatesOk, dxy |-> None]}
    \cup {[http |-> "ok", rates |-> t, dxy |-> None] : t \in RateTables \ {AllRatesOk}}
    \cup {[http |-> "ok", rates |-> AllRatesOk, dxy |-> v] : v \in Values}

\* The estimator checking only that each needed rate is present.
SyntheticUncheckedZero(reply) ==
    IF reply.http # "ok" THEN Raise("http")
    ELSE IF \E c \in Needed : reply.rates[c] = "absent"
         THEN Raise("Missing USD")
    ELSE Ok(reply.dxy, "synthetic")

get_dxy_synthetic_from_fx(reply) ==
    IF reply.http # "ok" THEN Raise("http")
    ELSE IF \E c \in Needed : reply.rates[c] \in {"absent", "None", "zero"}
         THEN Raise("Missing USD")
    ELSE Ok(reply.dxy, "synthetic")

\* ------------------------------------------------------------ append_csv
\* The dedup gate measuring from the first row of the frame, not the last.
IsDuplicateOfFirstRow(df, now_dt) ==
    /\ Len(df) > 0
    /\ Abs(now_dt - to_datetime(df[1].datetime_utc))
         < DedupSeconds * TicksPerSec

\* dedup 60s: the frame has a last row and the clock read at the gate is less
\* than 60 s from its timestamp, in either direction.
IsDuplicate(df, now_dt) ==
    /\ Len(df) > 0
    /\ df[Len(df)].datetime_utc \notin {None, BadTs}
    /\ Abs(now_dt - to_datetime(df[Len(df)].datetime_utc))
         < DedupSeconds * TicksPerSec

\* The outlier guard measuring from the first row of the frame.
IsOutlierFromFirstRow(df, value) ==
    /\ Len(df) > 0
    /\ Abs(value - df[1].dxy_index) > MaxDelta

\* The outlier guard without abs: only a rise of more than 3.0 is an outlier.
IsOutlierRiseOnly(df, value) ==
    /\ Len(df) > 0
    /\ value - df[Len(df)].dxy_index > MaxDelta

\* outlier guard: the frame has a last row and the price is more than 3.0 from
\* its dxy_index (never so from a NaN).
IsOutlier(df, value) ==
    /\ Len(df) > 0
    /\ df[Len(df)].dxy_index # None
    /\ Abs(value - df[Len(df)].dxy_index) > MaxDelta

\* The reference never taken from the file: always the baseline.
ReferenceAlwaysBaseline(df) == BaselineRef

\* reference for change pct: the last row's dxy_index when positive, else the
\* baseline.
Reference(df) ==
    IF Len(df) > 0 /\ df[Len(df)].dxy_index # None /\ df[Len(df)].dxy_index > 0
    THEN df[Len(df)].dxy_index
    ELSE BaselineRef

NewRow(df, value, label, t_row) ==
    [datetime_utc   |-> now_utc_str(t_row),
     dxy_index      |-> value,
     source         |-> label,
     dxy_change_pct |-> ChangePct(value, Reference(df))]

\* The append that replaces the rows bearing the new row's timestamp.
ConcatDropDuplicateTs(df, row) ==
    SortByTs(Append(SelectSeq(df, LAMBDA x : x.datetime_utc # row.datetime_utc),
                    row))

\* The append without the sort.
ConcatUnsorted(df, row) == Append(df, row)

\* append + sort
Concat(df, row) == SortByTs(Coerce(Append(df, row)))

\* append_csv(price, source) on the file (kind, rows), the clock reading t_row
\* when the row is built and now_dt at the dedup gate: what it prints and the
\* file it leaves.
append_csv(kind, rows, value, label, t_row, t_gate) ==
    LET df == LoadCsv(kind, rows) IN
    IF IsDuplicate(df, t_gate)
    THEN [printed |-> "SKIP duplicate", kind |-> kind, rows |-> rows]
    ELSE IF IsOutlier(df, value)
    THEN [printed |-> "Outlier detected", kind |-> kind, rows |-> rows]
    ELSE [printed |-> "APPENDED", kind |-> "table",
          rows |-> Concat(df, NewRow(df, value, label, t_row))]

\* ---------------------------------------------------------------- state
VARIABLES
    pc,           \* where the run is: idle, fetch, sleep, fallback, append,
                  \* done (append_csv returned), fatal (the run raised),
                  \* crashed (the process was killed)
    csvKind,      \* data/dxy_history.csv: missing, zero, garbage, table, or
                  \* partial (the head of a write that was cut short)
    csvRows,      \* its records, in file order
    tmpKind,      \* data/dxy_history.csv.tmp: missing, zero, partial or table
    r, u, p,      \* scrape_cnbc_with_retry: round, URL index, profile index
    last_err,     \* scrape_cnbc_with_retry: last_err
    attempts,     \* the [TRY] lines of this fetch: <<round, url, profile>>
    last_outcome, \* how the latest scrape_cnbc_once call ended
    oks,          \* the [OK] lines of this fetch, counted
    sleeps,       \* the [WAIT] lines of this fetch: seconds slept
    raised,       \* the message of the RuntimeError the fetch raised
    price,        \* __main__: price
    source,       \* __main__: source
    origin,       \* which function computed price: live or synthetic
    reply,        \* what the exchange-rate API answered in this run
    rows0,        \* the records of the file when the run started
    printed,      \* what append_csv printed last
    now_dt,       \* append_csv: now_dt, the clock read at the dedup gate
    streak,       \* history (kept by SpecCounted): the runs in a row that
                  \* offered append_csv a price more than 3.0 from the last
                  \* record, and the records of the file at the first of them
    loaded,       \* scrape_cnbc_once called alone: the page it loads
    result        \* scrape_cnbc_once called alone: how the call ended

vars == <<pc, csvKind, csvRows, tmpKind, r, u, p, last_err, attempts, last_outcome,
          oks, sleeps, raised, price, source, origin, reply, rows0, printed,
          now_dt, streak, loaded, result>>

pureVars == <<loaded, result>>

fetchVars == <<r, u, p, last_err, attempts, last_outcome, oks, sleeps, raised>>
fileVars == <<csvKind, csvRows, tmpKind>>

Series == LoadCsv(csvKind, csvRows)

NoStreak == [n |-> 0, rows |-> <<>>]
NoPage == [goto |-> NoStr, dom |-> NoDom, captured |-> <<>>, html |-> None]
NoResult == [ok |-> FALSE, val |-> None, err |-> NoStr, strategy |-> NoStr]

Init ==
    /\ pc = "idle"
    /\ csvKind \in {"missing", "zero", "garbage", "table"}
    /\ csvRows = <<>>
    /\ tmpKind = "missing"
    /\ r = 1 /\ u = 1 /\ p = 1
    /\ last_err = NoErr
    /\ attempts = <<>>
    /\ last_outcome = NoStr
    /\ sleeps = <<>>
    /\ oks = 0
    /\ raised = NotRaised
    /\ reply = NoReply
    /\ price = None
    /\ source = NoStr
    /\ origin = NoStr
    /\ rows0 = <<>>
    /\ printed = NoStr
    /\ now_dt = None
    /\ streak = NoStreak
    /\ loaded = NoPage
    /\ result = NoResult

\* __main__ up to the call of scrape_cnbc_with_retry: a missing file is
\* created with the header alone.
MainStart ==
    /\ pc \in {"idle", "done", "fatal", "crashed"}
    /\ Len(Series) < MaxRows
    /\ csvKind' = IF csvKind = "missing" THEN "table" ELSE csvKind
    /\ csvRows' = csvRows
    /\ tmpKind' = tmpKind
    /\ rows0' = Series
    /\ pc' = "fetch"
    /\ r' = 1 /\ u' = 1 /\ p' = 1
    /\ last_err' = NoErr
    /\ attempts' = <<>>
    /\ last_outcome' = NoStr
    /\ sleeps' = <<>>
    /\ oks' = 0
    /\ raised' = NotRaised
    /\ reply' = NoReply
    /\ price' = None /\ source' = NoStr /\ origin' = NoStr
    /\ printed' = NoStr /\ now_dt' = None
    /\ UNCHANGED <<streak, pureVars>>

\* return val, "cnbc_playwright"
Return(res) ==
    /\ price' = res.val
    /\ source' = LIVE
    /\ origin' = "live"
    /\ oks' = oks + 1
    /\ pc' = "append"
    /\ UNCHANGED <<r, u, p, last_err>>

\* The except clause letting a navigation error through: the run dies of it.
ExceptNavigationEscapes(res) ==
    /\ last_err' = [url |-> u, vp |-> p, e |-> res.err]
    /\ IF res.err = "goto"
       THEN p' = p /\ u' = u /\ pc' = "fatal"
       ELSE IF p < NumProfiles
       THEN p' = p + 1 /\ u' = u /\ pc' = "fetch"
       ELSE IF u < NumUrls
       THEN p' = 1 /\ u' = u + 1 /\ pc' = "fetch"
       ELSE p' = p /\ u' = u /\ pc' = "sleep"
    /\ UNCHANGED <<r, price, source, origin, oks>>

\* except Exception as e: last_err is set and the loops go on, to the next
\* profile, the next URL or the sleep that ends the round.
Except(res) ==
    /\ last_err' = [url |-> u, vp |-> p, e |-> res.err]
    /\ IF p < NumProfiles
       THEN p' = p + 1 /\ u' = u /\ pc' = "fetch"
       ELSE IF u < NumUrls
       THEN p' = 1 /\ u' = u + 1 /\ pc' = "fetch"
       ELSE p' = p /\ u' = u /\ pc' = "sleep"
    /\ UNCHANGED <<r, price, source, origin, oks>>

\* One pass of the body of the loops of scrape_cnbc_with_retry: the try of
\* scrape_cnbc_once, then the return or the except.
Attempt ==
    /\ pc = "fetch"
    /\ \E page \in Pages :
         LET res == scrape_cnbc_once(page) IN
         /\ attempts' = Append(attempts, <<r, u, p>>)
         /\ last_outcome' = IF res.ok THEN "ok" ELSE res.err
         /\ IF res.ok THEN Return(res) ELSE Except(res)
    /\ UNCHANGED <<fileVars, sleeps, raised, reply, rows0, printed, now_dt,
                   streak, pureVars>>

\* The loop over rounds running one round too many.
BackoffOneRoundMore ==
    /\ pc = "sleep"
    /\ sleeps' = Append(sleeps, BackoffFactor * r)
    /\ IF r < max_rounds + 1
       THEN /\ r' = r + 1 /\ u' = 1 /\ p' = 1
            /\ pc' = "fetch"
            /\ raised' = raised
       ELSE /\ raised' = last_err
            /\ pc' = "fallback"
            /\ UNCHANGED <<r, u, p>>
    /\ UNCHANGED <<fileVars, last_err, attempts, last_outcome, oks, price,
                   source, origin, reply, rows0, printed, now_dt, streak,
                   pureVars>>

\* The end of a round: time.sleep(4 * r), then the next round, or after the
\* last round raise RuntimeError(last_err), which __main__ catches.
Backoff ==
    /\ pc = "sleep"
    /\ sleeps' = Append(sleeps, BackoffFactor * r)
    /\ IF r < max_rounds
       THEN /\ r' = r + 1 /\ u' = 1 /\ p' = 1
            /\ pc' = "fetch"
            /\ raised' = raised
       ELSE /\ raised' = last_err
            /\ pc' = "fallback"
            /\ UNCHANGED <<r, u, p>>
    /\ UNCHANGED <<fileVars, last_err, attempts, last_outcome, oks, price,
                   source, origin, reply, rows0, printed, now_dt, streak,
                   pureVars>>

\* The except branch of __main__: the synthetic estimate, whose exception
\* nothing catches.
Fallback ==
    /\ pc = "fallback"
    /\ \E data \in Replies :
         LET res == get_dxy_synthetic_from_fx(data) IN
         /\ reply' = data
         /\ IF res.ok
            THEN /\ price' = res.val
                 /\ source' = SYNTHETIC
                 /\ origin' = "synthetic"
                 /\ pc' = "append"
            ELSE /\ pc' = "fatal"
                 /\ UNCHANGED <<price, source, origin>>
    /\ UNCHANGED <<fileVars, fetchVars, rows0, printed, now_dt, streak,
                   pureVars>>

\* append_csv(price, source), whole: the row, the safe read, the dedup gate,
\* the outlier guard, the change, the append, the sort and the write.
AppendCsvCall ==
    /\ pc = "append"
    /\ \E t_row \in ClockValues, t_gate \in ClockValues :
         LET res == append_csv(csvKind, csvRows, price, source, t_row, t_gate) IN
         /\ csvKind' = res.kind
         /\ csvRows' = res.rows
         \* os.replace(tmp, CSV_PATH) moves the temporary file away
         /\ tmpKind' = IF res.printed = "APPENDED" THEN "missing" ELSE tmpKind
         /\ printed' = res.printed
         /\ now_dt' = t_gate
    /\ pc' = "done"
    \* the frame of scrape_cnbc_with_retry is gone
    /\ r' = 1 /\ u' = 1 /\ p' = 1
    /\ last_err' = NoErr
    /\ attempts' = <<>>
    /\ last_outcome' = NoStr
    /\ sleeps' = <<>>
    /\ oks' = 0
    /\ raised' = NotRaised
    /\ UNCHANGED <<price, source, origin, reply, rows0, pureVars>>

AppendCsv == AppendCsvCall /\ UNCHANGED streak

Next == MainStart \/ Attempt \/ Backoff \/ Fallback \/ AppendCsv

Spec == Init /\ [][Next]_vars

\* The program is sequential and every wait in the fetch is bounded (the
\* navigation and locator timeouts, wait_for_timeout, time.sleep): a fetch
\* that can take its next step takes it.
FairSpec == Spec /\ WF_vars(Attempt) /\ WF_vars(Backoff)

\* --------------------------------------- runs with the rejections counted
\* append_csv, the history kept: a call offered a price more than 3.0 from the
\* last record adds to the streak, any other call ends it.
AppendCsvCounted ==
    /\ AppendCsvCall
    /\ streak' = IF /\ Len(Series) > 0
                     /\ Series[Len(Series)].dxy_index # None
                     /\ Abs(price - Series[Len(Series)].dxy_index) > MaxDelta
                  THEN [n |-> IF streak.n < StreakCap THEN streak.n + 1
                                                      ELSE streak.n,
                        rows |-> IF streak.n = 0 THEN Series ELSE streak.rows]
                  ELSE NoStreak

NextCounted == MainStart \/ Attempt \/ Backoff \/ Fallback \/ AppendCsvCounted

SpecCounted == Init /\ [][NextCounted]_vars

\* ------------------------------------------- scrape_cnbc_once called alone
DomTexts == {None, 104 * Scale, 113 * Scale}
HtmlTexts == {None, 107 * Scale, 113 * Scale}
ResponsesSeen ==
    [relevant : BOOLEAN, v : {None, 104 * Scale, 110 * Scale, 113 * Scale}]

InitScrape ==
    /\ pc = "page"
    /\ \E g \in {"ok", "fail"}, d \in [1..NumSelectors -> DomTexts],
          h \in HtmlTexts :
         loaded = [goto |-> g, dom |-> d, captured |-> <<>>, html |-> h]
    /\ result = NoResult
    /\ csvKind = "table"
    /\ csvRows = <<>>
    /\ tmpKind = "missing"
    /\ r = 1 /\ u = 1 /\ p = 1
    /\ last_err = NoErr
    /\ attempts = <<>>
    /\ last_outcome = NoStr
    /\ sleeps = <<>>
    /\ oks = 0
    /\ raised = NotRaised
    /\ reply = NoReply
    /\ price = None
    /\ source = NoStr
    /\ origin = NoStr
    /\ rows0 = <<>>
    /\ printed = NoStr
    /\ now_dt = None
    /\ streak = NoStreak

\* page.on("response", on_response): a response arrives while the page loads.
ObserveResponse ==
    /\ pc = "page"
    /\ Len(loaded.captured) < MaxCaptured
    /\ \E resp \in ResponsesSeen :
         loaded' = [loaded EXCEPT !.captured = on_response(@, resp)]
    /\ UNCHANGED <<pc, fileVars, fetchVars, price, source, origin, reply, rows0,
                   printed, now_dt, streak, result>>

\* The rest of scrape_cnbc_once: page.goto and the three strategies.
ScrapeOnce ==
    /\ pc = "page"
    /\ result' = scrape_cnbc_once(loaded)
    /\ pc' = "scraped"
    /\ UNCHANGED <<fileVars, fetchVars, price, source, origin, reply, rows0,
                   printed, now_dt, streak, loaded>>

NextScrape == ObserveResponse \/ ScrapeOnce

SpecScrape == InitScrape /\ [][NextScrape]_vars

\* Calls of scrape_cnbc_once alone, and runs of the program.
SpecScrapeAndRuns == (Init \/ InitScrape) /\ [][Next \/ NextScrape]_vars

\* ------------------------------------------------- the process is killed
\* What a file being written by to_csv holds when the write is cut short:
\* nothing yet, or the head of the text.
CutShort == {"zero", "partial"}

\* A killed process: its locals are gone, rows0 keeps what the file held when
\* the run started.
Killed ==
    /\ pc' = "crashed"
    /\ r' = 1 /\ u' = 1 /\ p' = 1
    /\ last_err' = NoErr
    /\ attempts' = <<>>
    /\ last_outcome' = NoStr
    /\ sleeps' = <<>>
    /\ oks' = 0
    /\ raised' = NotRaised
    /\ reply' = NoReply
    /\ price' = None /\ source' = NoStr /\ origin' = NoStr
    /\ printed' = NoStr /\ now_dt' = None
    /\ UNCHANGED <<streak, pureVars>>

\* Killed in __main__ while to_csv(CSV_PATH) writes the header of a file that
\* did not exist: the write goes to the series file itself.
CrashCreatingFile ==
    /\ pc \in {"idle", "done", "fatal", "crashed"}
    /\ csvKind = "missing"
    /\ csvKind' \in CutShort
    /\ UNCHANGED <<csvRows, tmpKind>>
    /\ rows0' = Series
    /\ Killed

\* Killed in the fetch or in the fallback: no file is being written.
CrashInRun ==
    /\ pc \in {"fetch", "sleep", "fallback"}
    /\ UNCHANGED <<fileVars, rows0>>
    /\ Killed

\* Killed in append_csv before os.replace returns: before the write, while
\* to_csv(tmp) writes, or with the temporary file whole.
CrashInAppend ==
    /\ pc = "append"
    /\ tmpKind' \in {tmpKind, "table"} \cup CutShort
    /\ UNCHANGED <<csvKind, csvRows, rows0>>
    /\ Killed

NextCrash == Next \/ CrashCreatingFile \/ CrashInRun \/ CrashInAppend

\* The program run over and over, a run ending at any point by a kill.
SpecCrash == Init /\ [][NextCrash]_vars

\* ---------------------------------------------- runs on a file found stored
\* Rows of files the program did not write whole. NaRow: a row of a file with
\* none of the four columns (each is added as None). ValueOnlyRow: a row of a
\* file that has the dxy_index column alone. BadTsRow: a full row whose
\* datetime_utc is no date. LostRow: a record of a file that no longer parses.
NaRow ==
    [datetime_utc |-> None, dxy_index |-> None, source |-> NoStr,
     dxy_change_pct |-> None]
ValueOnlyRow == [NaRow EXCEPT !.dxy_index = 104 * Scale]
BadTsRow ==
    [datetime_utc |-> BadTs, dxy_index |-> 107 * Scale, source |-> LIVE,
     dxy_change_pct |-> 0]
LostRow ==
    [datetime_utc |-> 0, dxy_index |-> 110 * Scale, source |-> LIVE,
     dxy_change_pct |-> 0]
StoredFiles ==
    {<<"missing", <<>>>>, <<"zero", <<>>>>,
     <<"garbage", <<>>>>, <<"garbage", <<LostRow>>>>,
     <<"table", <<NaRow>>>>, <<"table", <<ValueOnlyRow>>>>,
     <<"table", <<BadTsRow>>>>}

InitStored ==
    /\ pc = "idle"
    /\ \E f \in StoredFiles : csvKind = f[1] /\ csvRows = f[2]
    /\ tmpKind = "missing"
    /\ r = 1 /\ u = 1 /\ p = 1
    /\ last_err = NoErr
    /\ attempts = <<>>
    /\ last_outcome = NoStr
    /\ sleeps = <<>>
    /\ oks = 0
    /\ raised = NotRaised
    /\ reply = NoReply
    /\ price = None
    /\ source = NoStr
    /\ origin = NoStr
    /\ rows0 = <<>>
    /\ printed = NoStr
    /\ now_dt = None
    /\ streak = NoStreak
    /\ loaded = NoPage
    /\ result = NoResult

\* The program run, over and over, on a file it finds stored.
SpecStored == InitStored /\ [][Next]_vars

\* =================================================================== claims
\* The plausibility rule as the specification states it (is_acceptable): the
\* value is in the hard range and, when the frame has a last row, within the
\* maximum delta of its dxy_index.
InHardRange(v) == MinDxy <= v /\ v <= MaxDxy
SpecAcceptable(v, df) ==
    /\ InHardRange(v)
    /\ (Len(df) = 0 \/ Abs(v - df[Len(df)].dxy_index) <= MaxDelta)

\* s with its i-th element removed.
RemoveAt(s, i) == SubSeq(s, 1, i - 1) \o SubSeq(s, i + 1, Len(s))

\* The positions of Series at which the record this run added may stand.
AddedAt == {i \in 1..Len(Series) : RemoveAt(Series, i) = rows0}

\* C1: every record of the series file has a dxy_index inside the hard
\* plausibility range [90, 110].
C1_PersistedInHardRange ==
    \A i \in 1..Len(Series) : InHardRange(Series[i].dxy_index)

\* C2: when append_csv has returned, the run has left the series as it found
\* it or has added exactly one record, complete (a timestamp, a value, one of
\* the two source labels, a change) and valid (its value in the hard range).
CompleteRecord(rec) ==
    /\ rec.datetime_utc >= 0
    /\ rec.dxy_index # None
    /\ rec.source \in {LIVE, SYNTHETIC}
    /\ rec.dxy_change_pct = ChangePct(rec.dxy_index, Reference(rows0))
C2_RunAddsOneValidRecordOrNone ==
    pc = "done" =>
        \/ Series = rows0
        \/ /\ Len(Series) = Len(rows0) + 1
           /\ AddedAt # {}
           /\ \A i \in AddedAt :
                CompleteRecord(Series[i]) /\ InHardRange(Series[i].dxy_index)

\* C3: every record but the first differs in dxy_index from the record just
\* before it in the file by at most the maximum delta.
C3_ConsecutiveWithinMaxDelta ==
    \A i \in 2..Len(Series) :
        Abs(Series[i].dxy_index - Series[i - 1].dxy_index) <= MaxDelta

\* C4: no two records of the file have timestamps less than the dedup
\* interval apart.
C4_NoTwoWithinDedupInterval ==
    \A i, j \in 1..Len(Series) :
        i < j => Abs(Series[i].datetime_utc - Series[j].datetime_utc)
                   >= DedupSeconds

\* C5: a run whose synthetic value fails the plausibility rule against the
\* series it started from ends with append_csv returned and the series as it
\* was.
C5_ImplausibleSyntheticNotPersisted ==
    (pc = "done" /\ origin = "synthetic" /\ ~SpecAcceptable(price, rows0))
        => Series = rows0

\* C6: the value the fetch hands to append_csv passes the plausibility rule
\* against the series: in the hard range and, when there is a last record,
\* within the maximum delta of it.
C6_FetchReturnsOnlyAcceptable ==
    (pc = "append" /\ origin = "live") => SpecAcceptable(price, Series)

\* The attempts of a fetch in their fixed order: round, then URL, then profile.
PerRound == NumUrls * NumProfiles
TotalAttempts == max_rounds * PerRound
Combo(k) ==
    <<((k - 1) \div PerRound) + 1,
      (((k - 1) % PerRound) \div NumProfiles) + 1,
      ((k - 1) % NumProfiles) + 1>>
LastAttempt == attempts[Len(attempts)]
LastAttemptError ==
    [url |-> LastAttempt[2], vp |-> LastAttempt[3], e |-> last_outcome]

\* C7: a fetch makes at most max_rounds x |URLS| x |profiles| attempts, in
\* the order round, URL, profile; at most one attempt succeeds, and then the
\* fetch has returned the live label with no attempt and no sleep after it
\* (the sleeps are those of the rounds before); a fetch that raised made every
\* attempt, none succeeded, and the error it raised is that of the last one.
C7_AttemptsInOrder ==
    /\ Len(attempts) <= TotalAttempts
    /\ \A k \in 1..Len(attempts) : attempts[k] = Combo(k)
    /\ oks <= 1
    /\ oks = 1 =>
         /\ pc = "append" /\ source = LIVE /\ last_outcome = "ok"
         /\ sleeps = [k \in 1..(LastAttempt[1] - 1) |-> BackoffFactor * k]
    /\ raised # NotRaised =>
         /\ Len(attempts) = TotalAttempts /\ oks = 0
         /\ last_outcome \in {"goto", "parse"}
         /\ raised = LastAttemptError
\* C7, whole: the above in every state, and every fetch ends, returning to
\* append_csv or raising into the fallback.
C7_RetryBoundedOrderedFirstSuccess ==
    /\ []C7_AttemptsInOrder
    /\ (pc = "fetch") ~> (pc \in {"append", "fallback"})
C7_Witness ==
    /\ pc = "append" /\ origin = "live"
    /\ Len(attempts) = 2 * PerRound + 1
    /\ sleeps = <<BackoffFactor, 2 * BackoffFactor>>

\* C8: an attempt that raised is recorded in last_err and does not end the
\* fetch or the run: while the fetch runs, the next combination in order is
\* the one tried next, a round is slept on only after all its combinations,
\* the fetch raises only after every combination of every round, and a run
\* dies only of the estimator.
C8_AttemptErrorNeverAbortsRound ==
    /\ (pc \in {"fetch", "sleep"} /\ attempts # <<>>) =>
         /\ last_outcome \in {"goto", "parse"}
         /\ last_err = LastAttemptError
    /\ pc = "fetch" => <<r, u, p>> = Combo(Len(attempts) + 1)
    /\ pc = "sleep" => Len(attempts) = r * PerRound
    /\ pc = "fallback" => Len(attempts) = TotalAttempts
    /\ pc = "fatal" => reply # NoReply
C8_Witness ==
    /\ pc = "append" /\ origin = "live"
    /\ last_err.e = "goto"
    /\ Len(attempts) = PerRound

\* C9: the estimator is called only after every attempt of the fetch failed;
\* the value handed to append_csv, and the record a run adds, carry the
\* synthetic label iff the estimator computed the value; and when a needed
\* rate is absent, None or zero the run dies with no value and the series as
\* it was.
BadRates(data) ==
    /\ data.http = "ok"
    /\ \E c \in Needed : data.rates[c] \in {"absent", "None", "zero"}
C9_SyntheticOnlyAfterExhaustion ==
    /\ (pc \in {"fallback", "append", "fatal"}
         /\ (pc = "fallback" \/ reply # NoReply \/ origin = "synthetic")) =>
         /\ Len(attempts) = TotalAttempts
         /\ oks = 0 /\ last_outcome \in {"goto", "parse"}
    /\ pc = "append" => (source = SYNTHETIC <=> origin = "synthetic")
    /\ (pc = "done" /\ Series # rows0) =>
         /\ AddedAt # {}
         /\ \A i \in AddedAt :
              /\ Series[i].source = SYNTHETIC <=> origin = "synthetic"
              /\ Series[i].source = LIVE <=> origin = "live"
              /\ Series[i].dxy_index = price
    /\ BadRates(reply) =>
         pc = "fatal" /\ price = None /\ Series = rows0
C9_Witness ==
    /\ pc = "fatal"
    /\ reply.rates["CHF"] = "zero"
    /\ Len(attempts) = TotalAttempts

\* C10: a call of append_csv on a series with a last record, with the clock
\* at the dedup gate less than 60 s from that record's timestamp, leaves the
\* file as it was; so a second call within the interval of the only record
\* leaves that one record.
C10_DedupLeavesFileUnchanged ==
    [][(/\ pc = "append" /\ pc' = "done"
        /\ Len(Series) > 0
        /\ Abs(now_dt' - to_datetime(Series[Len(Series)].datetime_utc))
             < DedupSeconds * TicksPerSec)
       => (csvKind' = csvKind /\ csvRows' = csvRows)]_vars
C10_Witness ==
    /\ pc = "done" /\ printed = "SKIP duplicate"
    /\ Len(Series) = 1 /\ rows0 = Series

\* C11: a call of append_csv whose value is more than the maximum delta from
\* the dxy_index of the last record of the file returns (it does not raise)
\* and leaves the file as it was.
C11_OutlierRejectedFileUnchanged ==
    [][(/\ pc = "append"
        /\ Len(Series) > 0
        /\ Abs(price - Series[Len(Series)].dxy_index) > MaxDelta)
       => (pc' = "done" /\ printed' \in {"SKIP duplicate", "Outlier detected"}
           /\ csvKind' = csvKind /\ csvRows' = csvRows)]_vars
C11_Witness ==
    /\ pc = "done" /\ printed = "Outlier detected"
    /\ Len(Series) > 0 /\ Series = rows0
    /\ Abs(price - Series[Len(Series)].dxy_index) > MaxDelta

\* C14: when append_csv has written, the records of the file are in
\* non-decreasing order of timestamp, also when the new record's timestamp is
\* earlier than that of the record that was last.
SortedByTs(s) ==
    \A i \in 1..(Len(s) - 1) : s[i].datetime_utc <= s[i + 1].datetime_utc
C14_SortedAfterWrite ==
    (pc = "done" /\ printed = "APPENDED") => SortedByTs(Series)
C14_Witness ==
    /\ pc = "done" /\ printed = "APPENDED"
    /\ Len(rows0) > 0
    /\ \E i \in AddedAt :
         /\ i < Len(Series)
         /\ Series[i].datetime_utc < rows0[Len(rows0)].datetime_utc

\* C15: the record a run writes has dxy_change_pct = (value - reference) /
\* reference x 100 to 6 places, the reference being the dxy_index of the record
\* that was last in the file when the run found one, positive, and the
\* baseline 97.324 otherwise.
ClaimedReference ==
    IF Len(rows0) > 0 /\ rows0[Len(rows0)].dxy_index > 0
    THEN rows0[Len(rows0)].dxy_index
    ELSE (97324 * Scale) \div 1000
C15_ChangePctFromReference ==
    (pc = "done" /\ printed = "APPENDED") =>
        /\ AddedAt # {}
        /\ \A i \in AddedAt :
             Series[i].dxy_change_pct = ChangePct(price, ClaimedReference)
\* 104.0 after 107.0: (104 - 107) / 107 x 100 = -2.803738.
C15_Witness ==
    /\ pc = "done" /\ printed = "APPENDED"
    /\ Len(rows0) > 0 /\ rows0[Len(rows0)].dxy_index = 107 * Scale
    /\ price = 104 * Scale
    /\ Scale = 1000 =>
         \E i \in AddedAt : Series[i].dxy_change_pct = 0 - 2803738

\* C12: no step of the program edits or deletes a record of the file: every
\* record that was in the file before the step is in it after the step, as
\* many times, with the same datetime_utc, dxy_index, source and
\* dxy_change_pct (its position may change), and the file holds at most one
\* record more.
CountOf(s, x) == Cardinality({k \in DOMAIN s : s[k] = x})
SameRecords(a, b) ==
    /\ Len(a) = Len(b)
    /\ \A k \in DOMAIN a : CountOf(a, a[k]) = CountOf(b, a[k])
C20_OutlierGuardNeverRelaxes ==
    streak.n > 0 => (Len(Series) > 0 /\ Series = streak.rows)
C20_Witness ==
    /\ pc = "done" /\ printed = "Outlier detected"
    /\ streak.n >= 2
    /\ now_dt >= DedupSeconds * TicksPerSec
    /\ Series = streak.rows
    /\ Abs(price - Series[Len(Series)].dxy_index) > MaxDelta

\* C16 as stated: a file that is missing, zero-length, unparsable or holds
\* rows with missing or malformed cells is loaded as an empty series, so the
\* call appends (no previous value rejects it), the file it leaves holds the
\* new record alone, and the change is measured from the baseline 97.324.
MalformedRows(s) ==
    \E k \in DOMAIN s :
        \/ s[k].datetime_utc \in {None, BadTs}
        \/ s[k].dxy_index = None
        \/ s[k].source = NoStr
        \/ s[k].dxy_change_pct = None
LoadedAsEmpty ==
    /\ printed = "APPENDED"
    /\ csvKind = "table" /\ Len(csvRows) = 1
    /\ csvRows[1].dxy_index = price
    /\ csvRows[1].dxy_change_pct = ChangePct(price, (97324 * Scale) \div 1000)
C16_MalformedFileLoadsEmpty ==
    (pc = "done" /\ (rows0 = <<>> \/ MalformedRows(rows0))) => LoadedAsEmpty

\* C16, amended: append_csv never raises, whatever file it finds. It loads a
\* missing, zero-length or unparsable file as an empty series: the call
\* appends, the file it leaves holds the new record alone, the change measured
\* from the baseline. It loads a file that parses with every row, the cells of
\* missing columns empty: what it leaves when it appends holds one row more.
C16_UnreadableLoadsEmptyNeverRaises ==
    [][pc = "append" =>
        /\ pc' = "done"
        /\ csvKind # "table" =>
             /\ printed' = "APPENDED"
             /\ csvKind' = "table" /\ Len(csvRows') = 1
             /\ csvRows'[1].dxy_index = price
             /\ csvRows'[1].dxy_change_pct
                  = ChangePct(price, (97324 * Scale) \div 1000)
        /\ csvKind = "table" =>
             \/ csvKind' = csvKind /\ csvRows' = csvRows
             \/ /\ printed' = "APPENDED"
                /\ Len(csvRows') = Len(csvRows) + 1]_vars
C16_Witness ==
    /\ pc = "done" /\ printed = "APPENDED"
    /\ rows0 = <<>> /\ Len(csvRows) = 1
    /\ csvRows[1].dxy_index = 113 * Scale
    /\ csvRows[1].dxy_change_pct = ChangePct(113 * Scale, BaselineRef)

\* C13: a run killed at any point leaves the series file whole: either as it
\* was, or holding the complete series (the one it held, or that with the
\* run's record appended); never the head of an unfinished write.
C13_CrashLeavesFileWhole ==
    [][pc' = "crashed" =>
        \/ csvKind' = csvKind /\ csvRows' = csvRows
        \/ /\ csvKind' = "table"
           /\ \/ csvRows' = Series
              \/ \E i \in 1..Len(csvRows') : RemoveAt(csvRows', i) = Series]_vars

\* The strategies that have a candidate in [90, 110] on the loaded page.
DomAccepts == \E i \in 1..NumSelectors : InHardRange(loaded.dom[i])
CapturedAccepts ==
    \E j \in 1..Len(loaded.captured) : InHardRange(loaded.captured[j])
HtmlAccepts == InHardRange(loaded.html)
FirstDomAccepted ==
    loaded.dom[CHOOSE i \in 1..NumSelectors :
                  /\ InHardRange(loaded.dom[i])
                  /\ \A k \in 1..(i - 1) : ~InHardRange(loaded.dom[k])]

\* C17 as stated: an attempt consults the element lookup, then the
\* context-anchored text search, then the intercepted responses, and returns
\* the first candidate accepted.
C17_ElementTextResponseOrder ==
    (pc = "scraped" /\ loaded.goto = "ok") =>
        IF DomAccepts
        THEN result.ok /\ result.strategy = "dom" /\ result.val = FirstDomAccepted
        ELSE IF HtmlAccepts
        THEN result.ok /\ result.strategy = "html" /\ result.val = loaded.html
        ELSE IF CapturedAccepts
        THEN result.ok /\ result.strategy = "captured"
        ELSE ~result.ok

\* C17, amended: an attempt consults the element lookup, then the intercepted
\* responses, then the context-anchored text search of the page HTML, and
\* returns the first candidate accepted, the later strategies not consulted.
C17_ElementResponseTextOrder ==
    (pc = "scraped" /\ loaded.goto = "ok") =>
        IF DomAccepts
        THEN result.ok /\ result.strategy = "dom" /\ result.val = FirstDomAccepted
        ELSE IF CapturedAccepts
        THEN /\ result.ok /\ result.strategy = "captured"
             /\ \E j \in 1..Len(loaded.captured) :
                  result.val = loaded.captured[j] /\ InHardRange(result.val)
        ELSE IF HtmlAccepts
        THEN result.ok /\ result.strategy = "html" /\ result.val = loaded.html
        ELSE ~result.ok
C17_Witness ==
    /\ pc = "scraped" /\ loaded.goto = "ok"
    /\ ~DomAccepts /\ CapturedAccepts /\ HtmlAccepts
    /\ result.ok /\ result.strategy = "captured"
    /\ result.val # loaded.html

\* C18: the prices captured from responses are kept in arrival order, and the
\* one the response strategy yields is the latest captured among those in
\* [90, 110]: an earlier one only when every later one is out of range.
C18_LatestAccepted ==
    (pc = "scraped" /\ result.ok /\ result.strategy = "captured") =>
        \E j \in 1..Len(loaded.captured) :
            /\ result.val = loaded.captured[j]
            /\ InHardRange(loaded.captured[j])
            /\ \A k \in (j + 1)..Len(loaded.captured) :
                 ~InHardRange(loaded.captured[k])
C18_ArrivalOrderLatestAccepted ==
    /\ []C18_LatestAccepted
    /\ [][\/ loaded'.captured = loaded.captured
          \/ /\ Len(loaded'.captured) = Len(loaded.captured) + 1
             /\ SubSeq(loaded'.captured, 1, Len(loaded.captured))
                  = loaded.captured]_vars
C18_Witness ==
    /\ pc = "scraped" /\ result.ok /\ result.strategy = "captured"
    /\ Len(loaded.captured) >= 2
    /\ result.val = loaded.captured[1]
    /\ result.val # loaded.captured[Len(loaded.captured)]

\* C19: a value scrape_cnbc_once returns lies in [90, 110], so every record
\* of the file labelled cnbc_playwright has a dxy_index in [90, 110]; a call
\* on a page where no strategy has a value in the range ends in an error.
C19_LiveValuesInRange ==
    /\ (pc = "scraped" /\ result.ok) => InHardRange(result.val)
    /\ (pc = "scraped" /\ ~DomAccepts /\ ~CapturedAccepts /\ ~HtmlAccepts)
         => (~result.ok /\ result.val = None /\ result.err \in {"goto", "parse"})
    /\ (pc = "append" /\ origin = "live") => InHardRange(price)
    /\ \A i \in 1..Len(Series) :
         Series[i].source = LIVE => InHardRange(Series[i].dxy_index)
C19_Witness ==
    /\ pc = "scraped" /\ loaded.goto = "ok" /\ ~result.ok
    /\ \E i \in 1..NumSelectors : loaded.dom[i] = 113 * Scale
    /\ Len(loaded.captured) > 0
    /\ loaded.html = 113 * Scale

====
